---------------------------- MODULE Spec2Model ----------------------------
(***************************************************************************)
(* A model of histo-py: the undo/redo history of history.py driven by a    *)
(* client that submits command instances (command.py).                     *)
(*                                                                         *)
(* The history is DoubleStackHistory: two Python lists used as stacks.     *)
(* Every public method is one action; the command operation a method       *)
(* invokes (execute, undo, redo) runs inline, as in the code, and may      *)
(* raise, in which case the exception leaves the method after the stacks   *)
(* were already moved.                                                     *)
(***************************************************************************)
EXTENDS Naturals, Sequences, FiniteSets

(***************************************************************************)
(* Bounds of the model.                                                    *)
(***************************************************************************)
\* append is offered while the primary stack holds fewer instances than this
MaxLen == 2
\* execute / redo are offered while the external state holds fewer effects
MaxExt == 3
\* the calls made since construction are remembered up to this many
MaxTrace == 5
\* a BoundedHistory is constructed with a capacity of at most this
MaxCapacity == 8

(***************************************************************************)
(* command.py: commands and command instances.                             *)
(*                                                                         *)
(* Command is an abstract base: execute and undo raise NotImplementedError *)
(* and are supplied by the client's subclasses.  Two subclasses stand for  *)
(* the client here:                                                        *)
(*   Insert  keeps Command.redo (which calls execute) and never raises on  *)
(*           its own account;                                              *)
(*   Erase   overrides redo with a path of its own that has the effect of  *)
(*           execute, and any of its three operations may raise.           *)
(* The external state the commands act on is the sequence ext of effects   *)
(* applied and not reversed: execute appends the call's effect, undo       *)
(* removes it when it is the last one and raises when the external state   *)
(* does not have that shape.                                               *)
(***************************************************************************)
Commands == {"Insert", "Erase"}

\* the CommandInstance objects the client owns, by identity
Instances == {"A", "B", "C"}

\* CommandInstance.command
Command(i) == IF i = "C" THEN "Erase" ELSE "Insert"

\* CommandInstance.args: the positional arguments, a tuple
Args(i) == CASE i = "A" -> <<"x">>
             [] i = "B" -> <<"y">>
             [] OTHER   -> <<"z">>

\* CommandInstance.kwargs: the named arguments, as a set of (name, value) pairs
Kwargs(i) == IF i = "B" THEN {<<"at", "end">>} ELSE {}

\* whether the command's class overrides Command.redo
OverridesRedo(cmd) == cmd = "Erase"

\* whether an operation of the command may raise of its own accord
MayRaise(cmd) == cmd = "Erase"

\* what one execute / redo / undo of cmd(*args, **kwargs) adds to or removes
\* from the external state
Effect(cmd, args, kwargs) == <<cmd, args, kwargs>>

\* one invocation of a command operation, as the command receives it; inst is
\* the instance the history was acting for
Invocation(inst, method, cmd, args, kwargs) ==
    [inst |-> inst, method |-> method, command |-> cmd,
     args |-> args, kwargs |-> kwargs]

\* Command.execute as the client's subclasses implement it, on external state x
Execute(x, cmd, args, kwargs, fails) ==
    IF fails
    THEN [ext |-> x, raised |-> TRUE]
    ELSE [ext |-> Append(x, Effect(cmd, args, kwargs)), raised |-> FALSE]

\* Command.undo as the client's subclasses implement it, on external state x
Undo(x, cmd, args, kwargs, fails) ==
    IF fails \/ x = <<>> \/ x[Len(x)] # Effect(cmd, args, kwargs)
    THEN [ext |-> x, raised |-> TRUE]
    ELSE [ext |-> SubSeq(x, 1, Len(x) - 1), raised |-> FALSE]

\* Redo whose default does not call execute (line 39 missing)
RedoWithoutExecute(x, cmd, args, kwargs, fails) ==
    IF OverridesRedo(cmd)
    THEN IF fails
         THEN [ext |-> x, raised |-> TRUE]
         ELSE [ext |-> Append(x, Effect(cmd, args, kwargs)), raised |-> FALSE]
    ELSE [ext |-> x, raised |-> FALSE]

\* Command.redo: "By default, same as Command.execute"; Erase's own redo has
\* the same effect on the external state
Redo(x, cmd, args, kwargs, fails) ==
    IF OverridesRedo(cmd)
    THEN IF fails
         THEN [ext |-> x, raised |-> TRUE]
         ELSE [ext |-> Append(x, Effect(cmd, args, kwargs)), raised |-> FALSE]
    ELSE Execute(x, cmd, args, kwargs, fails)

\* the invocations one call of redo makes: Command.redo calls self.execute
RedoInvocations(inst, cmd, args, kwargs) ==
    <<Invocation(inst, "redo", cmd, args, kwargs)>> \o
    (IF OverridesRedo(cmd)
     THEN <<>>
     ELSE <<Invocation(inst, "execute", cmd, args, kwargs)>>)

(***************************************************************************)
(* history.py: the state of a DoubleStackHistory and of its caller.        *)
(***************************************************************************)
VARIABLES
    _primary,    \* self._primary: the applied region, top last
    _secondary,  \* self._secondary: the redoable region, top last
    ext,         \* the external state the commands act on
    call,        \* the last call made on the history: <<method, argument>>
    outcome,     \* how it ended: "ok", or the exception that left it
    ret,         \* what it returned
    log,         \* the command operations it invoked, in order
    raised,      \* whether one of them raised
    lastOp,      \* per instance, the last command operation invoked on it
    pre,         \* the stacks and external state as they were before it
    trace,       \* the mutating calls made since construction
    aliased,     \* whether append was ever given an instance already stored
    dropped,     \* the instances discarded and not appended again since
    run,         \* where the caller is in a walk to both ends of the history
    _capacity    \* self._capacity of a BoundedHistory, None of any other

vars == <<_primary, _secondary, ext, call, outcome, ret, log, raised, lastOp,
          pre, trace, aliased, dropped, run, _capacity>>

None == "None"
Ok == "ok"
EmptyHistoryException == "EmptyHistoryException"
NothingToUndoException == "NothingToUndoException"
NothingToRedoException == "NothingToRedoException"
\* an exception raised by a command operation (ExecutionError, UndoError, ...)
CommandError == "CommandError"
\* raised by every method of History that a subclass does not define
NotImplementedError == "NotImplementedError"

\* return values, tagged by Python type
RetNone == <<"None">>
RetInst(i) == <<"CommandInstance", i>>
RetBool(b) == <<"bool", b>>
RetInt(n) == <<"int", n>>

\* the trace once more than MaxTrace calls were made
Truncated == <<"...">>

Top(s) == s[Len(s)]
Pop(s) == SubSeq(s, 1, Len(s) - 1)

\* DoubleStackHistory.__init__
Init ==
    /\ _primary = <<>>
    /\ _secondary = <<>>
    /\ ext = <<>>
    /\ call = <<"__init__", None>>
    /\ outcome = Ok
    /\ ret = RetNone
    /\ log = <<>>
    /\ raised = FALSE
    /\ lastOp = [i \in Instances |-> None]
    /\ pre = [primary |-> <<>>, secondary |-> <<>>, ext |-> <<>>]
    /\ trace = <<>>
    /\ aliased = FALSE
    /\ dropped = {}
    /\ run = [phase |-> "off", n |-> 0, k |-> 0]
    /\ _capacity = None

\* the state a call starts from
Snapshot == [primary |-> _primary, secondary |-> _secondary, ext |-> ext]

\* the trace with one more mutating call
Traced(entry) ==
    IF trace # Truncated /\ Len(trace) < MaxTrace
    THEN Append(trace, entry)
    ELSE Truncated

\* The caller's walk to both ends of the history.  A walk starts with a
\* back() made when n >= 1 instances are applied and none is redoable, and
\* goes on with nothing but back() calls, then nothing but forth() calls:
\*   phase "undo", k: k back() calls were made, k <= n;
\*   phase "redo", k: n + 1 back() calls were made, then k forth() calls;
\*   phase "done":    n + 1 forth() calls were made;
\*   phase "off":     the caller is on no such walk.
Walk(method) ==
    IF method = "back" /\ _secondary = <<>> /\ Len(_primary) >= 1
    THEN [phase |-> "undo", n |-> Len(_primary), k |-> 1]
    ELSE IF method = "back" /\ run.phase = "undo" /\ run.k < run.n
    THEN [run EXCEPT !.k = run.k + 1]
    ELSE IF method = "back" /\ run.phase = "undo"
    THEN [run EXCEPT !.phase = "redo", !.k = 0]
    ELSE IF method = "forth" /\ run.phase = "redo" /\ run.k < run.n
    THEN [run EXCEPT !.k = run.k + 1]
    ELSE IF method = "forth" /\ run.phase = "redo"
    THEN [run EXCEPT !.phase = "done"]
    ELSE [phase |-> "off", n |-> 0, k |-> 0]

\* whether instance i is in s
In(i, s) == \E k \in 1..Len(s) : s[k] = i

\* lastOp after the invocations of invs, in order
RECURSIVE Acted(_, _)
Acted(last, invs) ==
    IF invs = <<>>
    THEN last
    ELSE Acted([last EXCEPT ![invs[1].inst] = invs[1].method], Tail(invs))

\* Propagated with the command's exception caught and dropped
Swallowed(r) == Ok

\* how append, back and forth end after the command operation of lines 133,
\* 146 and 159, which no try statement encloses: r is whether it raised
Propagated(r) == IF r THEN CommandError ELSE Ok

\* what a call records about itself
Called(method, arg, how, value, invs, mutating) ==
    /\ call' = <<method, arg>>
    /\ outcome' = how
    /\ ret' = value
    /\ log' = invs
    /\ lastOp' = Acted(lastOp, invs)
    /\ pre' = Snapshot
    /\ trace' = IF mutating THEN Traced(<<method, arg, how>>) ELSE trace
    /\ run' = IF mutating THEN Walk(method) ELSE run
    /\ _capacity' = _capacity

(***************************************************************************)
(* DoubleStackHistory.append                                               *)
(***************************************************************************)
\* AppendMove inserting at the bottom of the primary stack (insert(0, e))
AppendMoveUnder(e) ==
    [primary |-> <<e>> \o _primary, secondary |-> <<>>]

\* AppendMove popping the secondary stack once instead of clearing it
AppendMovePopsSecondary(e) ==
    [primary |-> Append(_primary, e),
     secondary |-> IF _secondary = <<>> THEN <<>> ELSE Pop(_secondary)]

\* AppendMove without line 129: the redoable region survives an append
AppendMoveKeepsSecondary(e) ==
    [primary |-> Append(_primary, e), secondary |-> _secondary]

\* the stacks after lines 129 and 132
AppendMove(e) ==
    [primary |-> Append(_primary, e), secondary |-> <<>>]

\* AppendInvocations without the named arguments (execute(*e.args))
AppendInvocationsNoKwargs(e) ==
    <<Invocation(e, "execute", Command(e), Args(e), {})>>

\* the invocation of line 133: e.command.execute(*e.args, **e.kwargs)
AppendInvocations(e) ==
    <<Invocation(e, "execute", Command(e), Args(e), Kwargs(e))>>

AppendCall(e, fails) ==
    /\ Len(_primary) < MaxLen
    /\ Len(ext) < MaxExt
    /\ fails => MayRaise(Command(e))
    /\ _primary' = AppendMove(e).primary
    /\ _secondary' = AppendMove(e).secondary
    /\ LET inv == AppendInvocations(e)[1]
           r == Execute(ext, inv.command, inv.args, inv.kwargs, fails)
       IN /\ ext' = r.ext
          /\ raised' = r.raised
          /\ Called("append", e, Propagated(r.raised),
                    RetNone, AppendInvocations(e), TRUE)
    /\ aliased' = (aliased \/ In(e, _primary) \/ In(e, _secondary))
    /\ dropped' = (dropped \cup {i \in Instances : In(i, _secondary)}) \ {e}

(***************************************************************************)
(* DoubleStackHistory.back                                                 *)
(***************************************************************************)
\* BackCheck refusing to undo the oldest instance (<= 1 for == 0)
BackCheckKeepsOldest ==
    IF Len(_primary) <= 1
    THEN IF Len(_primary) = 0 /\ Len(_secondary) = 0
         THEN EmptyHistoryException
         ELSE NothingToUndoException
    ELSE Ok

\* BackCheck with the two exceptions of lines 138 and 139 exchanged
BackCheckSwapped ==
    IF Len(_primary) = 0
    THEN IF Len(_secondary) = 0
         THEN NothingToUndoException
         ELSE EmptyHistoryException
    ELSE Ok

\* the exception of lines 136-139, or Ok
BackCheck ==
    IF Len(_primary) = 0
    THEN IF Len(_secondary) = 0
         THEN EmptyHistoryException
         ELSE NothingToUndoException
    ELSE Ok

\* BackMove inserting at the bottom of the secondary stack (insert(0, c))
BackMoveUnder ==
    [secondary |-> <<Top(_primary)>> \o _secondary,
     primary |-> Pop(_primary),
     c |-> Top(_primary)]

\* BackMove without the push of line 142: the instance is on neither stack
BackMoveNoPush ==
    [secondary |-> _secondary,
     primary |-> Pop(_primary),
     c |-> Top(_primary)]

\* BackMove without the pop of line 145: the instance stays on both stacks
BackMoveNoPop ==
    [secondary |-> Append(_secondary, Top(_primary)),
     primary |-> _primary,
     c |-> Top(_primary)]

\* the stacks after lines 142 and 145, and c
BackMove ==
    [secondary |-> Append(_secondary, Top(_primary)),
     primary |-> Pop(_primary),
     c |-> Top(_primary)]

\* BackInvocations calling execute where line 146 calls undo
BackInvocationsExecute(c) ==
    <<Invocation(c, "execute", Command(c), Args(c), Kwargs(c))>>

\* the invocation of line 146: c.command.undo(*c.args, **c.kwargs)
BackInvocations(c) ==
    <<Invocation(c, "undo", Command(c), Args(c), Kwargs(c))>>

BackCall(fails) ==
    /\ aliased' = aliased
    /\ dropped' = dropped
    /\ IF BackCheck # Ok
       THEN /\ ~fails
            /\ UNCHANGED <<_primary, _secondary, ext>>
            /\ raised' = FALSE
            /\ Called("back", None, BackCheck, RetNone, <<>>, TRUE)
       ELSE LET c == BackMove.c
                inv == BackInvocations(c)[1]
                r == Undo(ext, inv.command, inv.args, inv.kwargs, fails)
            IN /\ fails => MayRaise(Command(c))
               /\ _secondary' = BackMove.secondary
               /\ _primary' = BackMove.primary
               /\ ext' = r.ext
               /\ raised' = r.raised
               /\ Called("back", None, Propagated(r.raised),
                         RetNone, BackInvocations(c), TRUE)

(***************************************************************************)
(* DoubleStackHistory.forth                                                *)
(***************************************************************************)
\* ForthCheck without the inner test of line 150
ForthCheckNoInner ==
    IF Len(_secondary) = 0 THEN EmptyHistoryException ELSE Ok

\* the exception of lines 149-152, or Ok
ForthCheck ==
    IF Len(_secondary) = 0
    THEN IF Len(_primary) = 0
         THEN EmptyHistoryException
         ELSE NothingToRedoException
    ELSE Ok

\* ForthMove without the pop of line 158: the instance stays on both stacks
ForthMoveNoPop ==
    [primary |-> Append(_primary, Top(_secondary)),
     secondary |-> _secondary,
     c |-> Top(_secondary)]

\* ForthMove taking the bottom of the secondary stack (index 0 for -1)
ForthMoveOldest ==
    [primary |-> Append(_primary, Head(_secondary)),
     secondary |-> Tail(_secondary),
     c |-> Head(_secondary)]

\* the stacks after lines 155 and 158, and c
ForthMove ==
    [primary |-> Append(_primary, Top(_secondary)),
     secondary |-> Pop(_secondary),
     c |-> Top(_secondary)]

\* the invocations of line 159: c.command.redo(*c.args, **c.kwargs)
ForthInvocations(c) ==
    RedoInvocations(c, Command(c), Args(c), Kwargs(c))

ForthCall(fails) ==
    /\ aliased' = aliased
    /\ dropped' = dropped
    /\ IF ForthCheck # Ok
       THEN /\ ~fails
            /\ UNCHANGED <<_primary, _secondary, ext>>
            /\ raised' = FALSE
            /\ Called("forth", None, ForthCheck, RetNone, <<>>, TRUE)
       ELSE LET c == ForthMove.c
                inv == ForthInvocations(c)[1]
                r == Redo(ext, inv.command, inv.args, inv.kwargs, fails)
            IN /\ Len(ext) < MaxExt
               /\ fails => MayRaise(Command(c))
               /\ _primary' = ForthMove.primary
               /\ _secondary' = ForthMove.secondary
               /\ ext' = r.ext
               /\ raised' = r.raised
               /\ Called("forth", None, Propagated(r.raised),
                         RetNone, ForthInvocations(c), TRUE)

(***************************************************************************)
(* DoubleStackHistory.item, can_undo, can_redo, clear, __len__             *)
(***************************************************************************)
\* the exception of lines 162-163, or Ok
ItemCheck ==
    IF Len(_primary) = 0 /\ Len(_secondary) = 0
    THEN EmptyHistoryException
    ELSE Ok

\* item returning the bottom of the primary stack (index 0 for -1)
itemOldest ==
    IF Len(_primary) > 0 THEN RetInst(Head(_primary)) ELSE RetNone

\* the value of line 164
item ==
    IF Len(_primary) > 0 THEN RetInst(Top(_primary)) ELSE RetNone

\* line 167
can_undo == Len(_primary) > 0

\* line 170
can_redo == Len(_secondary) > 0

\* __len__ counting the primary stack only
lengthOfPrimary == Len(_primary)

\* line 177
length == Len(_primary) + Len(_secondary)

\* ClearMove without line 173: only the secondary stack is cleared
ClearMoveKeepsPrimary == [primary |-> _primary, secondary |-> <<>>]

\* ClearMove without line 174: only the primary stack is cleared
ClearMoveKeepsSecondary == [primary |-> <<>>, secondary |-> _secondary]

\* the stacks after lines 173-174
ClearMove == [primary |-> <<>>, secondary |-> <<>>]

ItemCall ==
    /\ UNCHANGED <<_primary, _secondary, ext, aliased, dropped>>
    /\ raised' = FALSE
    /\ Called("item", None, ItemCheck,
              IF ItemCheck = Ok THEN item ELSE RetNone, <<>>, FALSE)

CanUndoCall ==
    /\ UNCHANGED <<_primary, _secondary, ext, aliased, dropped>>
    /\ raised' = FALSE
    /\ Called("can_undo", None, Ok, RetBool(can_undo), <<>>, FALSE)

CanRedoCall ==
    /\ UNCHANGED <<_primary, _secondary, ext, aliased, dropped>>
    /\ raised' = FALSE
    /\ Called("can_redo", None, Ok, RetBool(can_redo), <<>>, FALSE)

LenCall ==
    /\ UNCHANGED <<_primary, _secondary, ext, aliased, dropped>>
    /\ raised' = FALSE
    /\ Called("__len__", None, Ok, RetInt(length), <<>>, FALSE)

ClearCall ==
    /\ _primary' = ClearMove.primary
    /\ _secondary' = ClearMove.secondary
    /\ UNCHANGED <<ext, aliased>>
    /\ dropped' = dropped \cup {i \in Instances : In(i, _primary)
                                                  \/ In(i, _secondary)}
    /\ raised' = FALSE
    /\ Called("clear", None, Ok, RetNone, <<>>, TRUE)

Next ==
    \/ \E e \in Instances, fails \in BOOLEAN : AppendCall(e, fails)
    \/ \E fails \in BOOLEAN : BackCall(fails)
    \/ \E fails \in BOOLEAN : ForthCall(fails)
    \/ ItemCall
    \/ CanUndoCall
    \/ CanRedoCall
    \/ ClearCall
    \/ LenCall

Spec == Init /\ [][Next]_vars

\* The history with a client whose commands never raise of their own accord
\* and who never calls clear().
NextWellBehaved ==
    \/ \E e \in Instances : AppendCall(e, FALSE)
    \/ BackCall(FALSE)
    \/ ForthCall(FALSE)
    \/ ItemCall
    \/ CanUndoCall
    \/ CanRedoCall
    \/ LenCall

SpecWellBehaved == Init /\ [][NextWellBehaved]_vars

(***************************************************************************)
(* BoundedHistory: a History that defines __init__ and capacity only.      *)
(***************************************************************************)
\* BoundedHistory.__init__
InitBounded ==
    /\ _capacity \in 0..MaxCapacity
    /\ _primary = <<>>
    /\ _secondary = <<>>
    /\ ext = <<>>
    /\ call = <<"__init__", None>>
    /\ outcome = Ok
    /\ ret = RetNone
    /\ log = <<>>
    /\ raised = FALSE
    /\ lastOp = [i \in Instances |-> None]
    /\ pre = [primary |-> <<>>, secondary |-> <<>>, ext |-> <<>>]
    /\ trace = <<>>
    /\ aliased = FALSE
    /\ dropped = {}
    /\ run = [phase |-> "off", n |-> 0, k |-> 0]

\* a method BoundedHistory inherits from History: raise NotImplementedError()
Inherited(method, arg) ==
    /\ call' = <<method, arg>>
    /\ outcome' = NotImplementedError
    /\ ret' = RetNone
    /\ UNCHANGED <<_capacity, _primary, _secondary, ext, log, raised, lastOp,
                   pre, trace, aliased, dropped, run>>

BoundedAppendCall(e) == Inherited("append", e)

BoundedBackCall == Inherited("back", None)

BoundedForthCall == Inherited("forth", None)

BoundedItemCall == Inherited("item", None)

BoundedCanUndoCall == Inherited("can_undo", None)

BoundedCanRedoCall == Inherited("can_redo", None)

BoundedClearCall == Inherited("clear", None)

BoundedLenCall == Inherited("__len__", None)

\* BoundedHistory.capacity
CapacityCall ==
    /\ call' = <<"capacity", None>>
    /\ outcome' = Ok
    /\ ret' = RetInt(_capacity)
    /\ UNCHANGED <<_capacity, _primary, _secondary, ext, log, raised, lastOp,
                   pre, trace, aliased, dropped, run>>

NextBounded ==
    \/ \E e \in Instances : BoundedAppendCall(e)
    \/ BoundedBackCall
    \/ BoundedForthCall
    \/ BoundedItemCall
    \/ BoundedCanUndoCall
    \/ BoundedCanRedoCall
    \/ BoundedClearCall
    \/ BoundedLenCall
    \/ CapacityCall

SpecBounded == InitBounded /\ [][NextBounded]_vars

(***************************************************************************)
(* Properties.  A step of Next is one call; call', outcome', ret' and log' *)
(* describe the call the step made, the unprimed stacks the state it       *)
(* found.                                                                  *)
(***************************************************************************)
\* the invocations of log that name method
Invoked(l, method) == {k \in 1..Len(l) : l[k].method = method}

\* C1: an append(e) that returns normally leaves the redoable region empty,
\* leaves the applied region equal to its previous contents with e pushed on
\* top, and invokes e.command.execute exactly once with e's args and kwargs,
\* and no undo or redo on any instance.
C1_AppendContract ==
    [][\A e \in Instances :
         (call' = <<"append", e>> /\ outcome' = Ok) =>
            /\ _secondary' = <<>>
            /\ _primary' = _primary \o <<e>>
            /\ log' = <<[inst |-> e, method |-> "execute",
                         command |-> Command(e), args |-> Args(e),
                         kwargs |-> Kwargs(e)]>>]_vars

\* an append that returned normally and found both regions non-empty
C1_Witness ==
    /\ call = <<"append", "B">>
    /\ outcome = Ok
    /\ pre.primary # <<>>
    /\ pre.secondary # <<>>
    /\ _primary = pre.primary \o <<"B">>

\* C2: with a non-empty applied region, a back() that returns normally
\* removes exactly the top instance c of the applied region, pushes c on top
\* of the redoable region, leaves every other stored instance in place and
\* length() unchanged, and invokes c.command.undo exactly once with c's
\* args and kwargs, and nothing else.
C2_BackContract ==
    [][(call' = <<"back", None>> /\ outcome' = Ok) =>
          /\ Len(_primary) > 0
          /\ LET c == _primary[Len(_primary)]
             IN /\ _primary \o <<>> = _primary' \o <<c>>
                /\ _secondary' = _secondary \o <<c>>
                /\ length' = length
                /\ log' = <<[inst |-> c, method |-> "undo",
                             command |-> Command(c), args |-> Args(c),
                             kwargs |-> Kwargs(c)]>>]_vars

\* a back() that returned normally, with instances left on both stacks below
\* the one it moved, which carries named arguments
C2_Witness ==
    /\ call = <<"back", None>>
    /\ outcome = Ok
    /\ Len(pre.primary) = 2
    /\ Len(_secondary) = 1
    /\ _secondary[1] = "B"
    /\ Len(log) = 1

\* C3: with a non-empty redoable region, a forth() that returns normally
\* removes exactly the top instance c of the redoable region (the most
\* recently undone one), pushes c on top of the applied region, leaves every
\* other stored instance in place and length() unchanged, and invokes
\* c.command.redo exactly once with c's args and kwargs; no undo is invoked
\* and no other instance is acted on.
C3_ForthContract ==
    [][(call' = <<"forth", None>> /\ outcome' = Ok) =>
          /\ Len(_secondary) > 0
          /\ LET c == _secondary[Len(_secondary)]
             IN /\ _secondary \o <<>> = _secondary' \o <<c>>
                /\ _primary' = _primary \o <<c>>
                /\ length' = length
                /\ Cardinality(Invoked(log', "redo")) = 1
                /\ Invoked(log', "undo") = {}
                /\ \A k \in 1..Len(log') :
                      /\ log'[k].inst = c
                      /\ log'[k].command = Command(c)
                      /\ log'[k].args = Args(c)
                      /\ log'[k].kwargs = Kwargs(c)]_vars

\* a forth() that returned normally and found two undone instances, the
\* older one below the one it moved
C3_Witness ==
    /\ call = <<"forth", None>>
    /\ outcome = Ok
    /\ Len(pre.secondary) = 2
    /\ pre.secondary[1] # pre.secondary[2]
    /\ _primary = <<pre.secondary[2]>>
    /\ _secondary = <<pre.secondary[1]>>

\* the trace of append(x), append(y), back(), back(), append(z), none raising
BranchTrace(x, y, z) ==
    <<<<"append", x, Ok>>, <<"append", y, Ok>>, <<"back", None, Ok>>,
      <<"back", None, Ok>>, <<"append", z, Ok>>>>

\* the instances the history tracks
Tracked == {i \in Instances : In(i, _primary) \/ In(i, _secondary)}

\* C4 as stated: on a fresh history, after append(A), append(B), back(),
\* back(), append(C) with distinct instances and no command raising,
\* can_redo() is false and length() == 2, the history tracking A and C only.
C4_BranchDiscardAsStated ==
    \A x, y, z \in Instances :
       (x # y /\ y # z /\ x # z /\ trace = BranchTrace(x, y, z)) =>
          /\ ~can_redo
          /\ length = 2
          /\ Tracked = {x, z}

\* C4 as amended: after that sequence can_redo() is false and length() == 1,
\* the history tracking C only: both undone instances A and B are discarded.
C4_BranchDiscard ==
    \A x, y, z \in Instances :
       (x # y /\ y # z /\ x # z /\ trace = BranchTrace(x, y, z)) =>
          /\ ~can_redo
          /\ length = 1
          /\ Tracked = {z}
          /\ item = RetInst(z)

\* the sequence of C4 was made, with A, B and C
C4_Witness ==
    /\ trace = BranchTrace("A", "B", "C")
    /\ call = <<"append", "C">>
    /\ Len(pre.secondary) = 2

\* the region invariant of C5, whatever was appended
RegionInvariant ==
    \A i \in Instances :
       /\ In(i, _primary) => lastOp[i] \in {"execute", "redo"}
       /\ In(i, _secondary) => lastOp[i] = "undo"

\* C5 as stated: in every state reachable by append, back, forth and clear
\* calls, the most recent command operation invoked on each instance in the
\* applied region was execute or redo, and on each instance in the redoable
\* region was undo.
C5_RegionInvariantAsStated == RegionInvariant

\* C5 as amended: the same, in every state reachable by calls none of which
\* appended an instance that was already in one of the two regions.
C5_RegionInvariant == ~aliased => RegionInvariant

\* both regions hold instances, one of them redone by its own redo, and no
\* instance was ever appended while stored
C5_Witness ==
    /\ ~aliased
    /\ _primary = <<"C">>
    /\ lastOp["C"] = "redo"
    /\ _secondary = <<"A">>
    /\ lastOp["A"] = "undo"

\* C6: back() with an empty applied region raises EmptyHistoryException
\* exactly when the redoable region is empty too and NothingToUndoException
\* exactly when it is not, leaving both stacks unchanged and invoking no
\* command operation; it raises neither with a non-empty applied region.
C6_BackErrors ==
    [][call' = <<"back", None>> =>
          /\ (outcome' = EmptyHistoryException) <=>
                (_primary = <<>> /\ _secondary = <<>>)
          /\ (outcome' = NothingToUndoException) <=>
                (_primary = <<>> /\ _secondary # <<>>)
          /\ _primary = <<>> =>
                /\ _primary' = _primary
                /\ _secondary' = _secondary
                /\ ext' = ext
                /\ log' = <<>>]_vars

\* a back() that found nothing to undo and two instances to redo
C6_Witness ==
    /\ call = <<"back", None>>
    /\ outcome = NothingToUndoException
    /\ _primary = <<>>
    /\ Len(_secondary) = 2
    /\ log = <<>>

\* C7: forth() with an empty redoable region raises EmptyHistoryException
\* exactly when the applied region is empty too and NothingToRedoException
\* exactly when it is not, leaving both stacks unchanged and invoking no
\* command operation; it raises neither with a non-empty redoable region.
C7_ForthErrors ==
    [][call' = <<"forth", None>> =>
          /\ (outcome' = EmptyHistoryException) <=>
                (_secondary = <<>> /\ _primary = <<>>)
          /\ (outcome' = NothingToRedoException) <=>
                (_secondary = <<>> /\ _primary # <<>>)
          /\ _secondary = <<>> =>
                /\ _primary' = _primary
                /\ _secondary' = _secondary
                /\ ext' = ext
                /\ log' = <<>>]_vars

\* a forth() that found nothing to redo and two instances applied
C7_Witness ==
    /\ call = <<"forth", None>>
    /\ outcome = NothingToRedoException
    /\ _secondary = <<>>
    /\ Len(_primary) = 2
    /\ log = <<>>

\* C8: item() returns the top of the applied region when that region is
\* non-empty, None when it is empty and the redoable region is not, and
\* raises EmptyHistoryException only when both are empty; it changes neither
\* stack and invokes no command operation.
C8_Item ==
    [][call' = <<"item", None>> =>
          /\ _primary # <<>> =>
                /\ outcome' = Ok
                /\ ret' = <<"CommandInstance", _primary[Len(_primary)]>>
          /\ (_primary = <<>> /\ _secondary # <<>>) =>
                /\ outcome' = Ok
                /\ ret' = <<"None">>
          /\ (outcome' # Ok) =>
                /\ outcome' = EmptyHistoryException
                /\ _primary = <<>>
                /\ _secondary = <<>>
          /\ _primary' = _primary
          /\ _secondary' = _secondary
          /\ ext' = ext
          /\ log' = <<>>]_vars

\* an item() that returned the top of two different applied instances
C8_Witness ==
    /\ call = <<"item", None>>
    /\ outcome = Ok
    /\ Len(_primary) = 2
    /\ _primary[1] # _primary[2]
    /\ ret = RetInst(_primary[2])

\* the trace of append(x), back(), forth(), none raising
RoundTripTrace(x) ==
    <<<<"append", x, Ok>>, <<"back", None, Ok>>, <<"forth", None, Ok>>>>

\* C9: with commands that do not raise, append(A), back(), forth() on a
\* fresh history leaves item() == A, can_undo() true, can_redo() false and
\* the external state as it was right after the append; and from any state
\* with a non-empty applied region, back() followed by forth() restores both
\* stacks and the external state exactly.
C9_RoundTrip ==
    [][/\ \A x \in Instances :
             trace' = RoundTripTrace(x) =>
                /\ item' = RetInst(x)
                /\ can_undo'
                /\ ~can_redo'
                /\ ext' = Execute(<<>>, Command(x), Args(x), Kwargs(x),
                                  FALSE).ext
       /\ (/\ call = <<"back", None>> /\ outcome = Ok
           /\ call' = <<"forth", None>> /\ outcome' = Ok) =>
                /\ _primary' = pre.primary
                /\ _secondary' = pre.secondary
                /\ ext' = pre.ext]_vars

\* a forth() right after a back(), neither raising, from a state with
\* instances in both regions and effects in the external state
C9_Witness ==
    /\ call = <<"forth", None>>
    /\ outcome = Ok
    /\ trace # Truncated
    /\ Len(trace) > 2
    /\ trace[Len(trace) - 1] = <<"back", None, Ok>>
    /\ pre.secondary = _secondary \o <<_primary[Len(_primary)]>>
    /\ _secondary # <<>>
    /\ ext # <<>>

\* the call a step makes continues a walk with one of its first n back()
\* calls, or one of its first n forth() calls
WalkMoves ==
    \/ /\ call' = <<"back", None>>
       /\ \/ _secondary = <<>> /\ Len(_primary) >= 1
          \/ run.phase = "undo" /\ run.k < run.n
    \/ /\ call' = <<"forth", None>>
       /\ run.phase = "redo" /\ run.k < run.n

\* the call a step makes is the back() after the first n of a walk
WalkEndsUndo ==
    /\ call' = <<"back", None>>
    /\ ~(_secondary = <<>> /\ Len(_primary) >= 1)
    /\ run.phase = "undo" /\ run.k = run.n

\* the call a step makes is the forth() after the first n of a walk
WalkEndsRedo ==
    /\ call' = <<"forth", None>>
    /\ run.phase = "redo" /\ run.k = run.n

\* C10 as stated: from n >= 1 applied instances and an empty redoable
\* region, exactly n consecutive back() calls succeed and the next raises
\* NothingToUndoException, at which point item() returns None and can_redo()
\* is true; from there exactly n consecutive forth() calls succeed and the
\* next raises NothingToRedoException.
C10_CursorBoundsAsStated ==
    [][/\ WalkMoves => outcome' = Ok
       /\ WalkEndsUndo =>
             /\ outcome' = NothingToUndoException
             /\ ItemCheck' = Ok /\ item' = RetNone
             /\ can_redo'
       /\ WalkEndsRedo => outcome' = NothingToRedoException]_vars

\* C10 as amended: each of the first n back() calls moves one instance to
\* the redoable region and raises no exception of the history (it returns
\* normally, or with the exception the command's undo raised); the next
\* raises NothingToUndoException, item() then returns None and can_redo() is
\* true; each of the next n forth() calls moves one instance back and raises
\* no exception of the history, and the next raises NothingToRedoException.
C10_CursorBounds ==
    [][/\ WalkMoves =>
             /\ outcome' \in {Ok, CommandError}
             /\ outcome' = CommandError => log' # <<>>
             /\ call' = <<"back", None>> =>
                   /\ Len(_primary') = Len(_primary) - 1
                   /\ Len(_secondary') = Len(_secondary) + 1
             /\ call' = <<"forth", None>> =>
                   /\ Len(_primary') = Len(_primary) + 1
                   /\ Len(_secondary') = Len(_secondary) - 1
       /\ WalkEndsUndo =>
             /\ outcome' = NothingToUndoException
             /\ ItemCheck' = Ok /\ item' = RetNone
             /\ can_redo'
       /\ WalkEndsRedo => outcome' = NothingToRedoException]_vars

\* a walk from two applied instances made to its end
C10_Witness ==
    /\ run = [phase |-> "done", n |-> 2, k |-> 2]
    /\ call = <<"forth", None>>
    /\ outcome = NothingToRedoException
    /\ Len(_primary) = 2
    /\ _secondary = <<>>

\* whether the calls made since construction are all known, at least one was
\* made, and all of them are appends whose command did not raise
OnlyAppends ==
    /\ trace # Truncated
    /\ trace # <<>>
    /\ \A k \in 1..Len(trace) : trace[k][1] = "append" /\ trace[k][3] = Ok

\* C11: after n >= 1 appends A1..An on a fresh history, with no other
\* operation in between and no command raising, can_undo() is true,
\* can_redo() is false, length() == n and item() is An.
C11_Appends ==
    OnlyAppends =>
       /\ can_undo
       /\ ~can_redo
       /\ length = Len(trace)
       /\ ItemCheck = Ok
       /\ item = RetInst(trace[Len(trace)][2])
       /\ _primary = [k \in 1..Len(trace) |-> trace[k][2]]

\* two different instances were appended to a fresh history, and nothing else
C11_Witness ==
    /\ OnlyAppends
    /\ Len(trace) = 2
    /\ trace[1][2] # trace[2][2]
    /\ call = <<"append", trace[2][2]>>

\* C12: clear() never raises, empties both regions and invokes no command
\* operation on a discarded instance; afterwards length() == 0, can_undo()
\* and can_redo() are false, and back(), forth() and item() raise
\* EmptyHistoryException as on a fresh history.
C12_Clear ==
    [][/\ call' = <<"clear", None>> =>
             /\ outcome' = Ok
             /\ _primary' = <<>>
             /\ _secondary' = <<>>
             /\ log' = <<>>
             /\ lastOp' = lastOp
             /\ ext' = ext
             /\ length' = 0
             /\ ~can_undo'
             /\ ~can_redo'
       /\ (/\ call = <<"clear", None>>
           /\ call' \in {<<"back", None>>, <<"forth", None>>,
                         <<"item", None>>}) =>
             /\ outcome' = EmptyHistoryException
             /\ _primary' = <<>>
             /\ _secondary' = <<>>
             /\ log' = <<>>]_vars

\* a clear() that found instances in both regions and an external state
\* holding effects, which it left there
C12_Witness ==
    /\ call = <<"clear", None>>
    /\ outcome = Ok
    /\ pre.primary # <<>>
    /\ pre.secondary # <<>>
    /\ ext # <<>>
    /\ _primary = <<>>
    /\ _secondary = <<>>

\* C13: can_undo(), can_redo() and len are pure, total observers: in every
\* state, also after an operation that raised, they can be called, never
\* raise, change neither stack, invoke no command operation and return
\* (applied region non-empty), (redoable region non-empty) and
\* size(applied) + size(redoable).
C13_Observers ==
    [][/\ ENABLED CanUndoCall
       /\ ENABLED CanRedoCall
       /\ ENABLED LenCall
       /\ call' \in {<<"can_undo", None>>, <<"can_redo", None>>,
                     <<"__len__", None>>} =>
             /\ outcome' = Ok
             /\ _primary' = _primary
             /\ _secondary' = _secondary
             /\ ext' = ext
             /\ log' = <<>>
             /\ lastOp' = lastOp
       /\ call' = <<"can_undo", None>> => ret' = <<"bool", _primary # <<>>>>
       /\ call' = <<"can_redo", None>> => ret' = <<"bool", _secondary # <<>>>>
       /\ call' = <<"__len__", None>> =>
             ret' = <<"int", Len(_primary) + Len(_secondary)>>]_vars

\* len called with instances in both regions, after a call that raised
C13_Witness ==
    /\ call = <<"__len__", None>>
    /\ ret = RetInt(2)
    /\ Len(_primary) = 1
    /\ Len(_secondary) = 1
    /\ trace # Truncated
    /\ trace # <<>>
    /\ trace[Len(trace)][3] = CommandError

Gone(i) ==
    /\ ~In(i, _primary)
    /\ ~In(i, _secondary)
    /\ call = <<"item", None>> => ret # RetInst(i)
    /\ call[1] \in {"back", "forth"} =>
          \A k \in 1..Len(log) : log[k].inst # i

\* C15 as stated: an instance that is in the redoable region when a new
\* append occurs, and any instance tracked when clear() is called, is
\* dropped for good: unless it is appended again, it is from then on in
\* neither stack, never returned by item(), not counted by length() and
\* never undone or redone by back() or forth().
C15_LifecycleAsStated == \A i \in dropped : Gone(i)

\* C15 as amended: the same, for the calls of a client that never appends an
\* instance which is already in one of the two regions.
C15_Lifecycle == ~aliased => \A i \in dropped : Gone(i)

\* A was undone and dropped by an append, C was dropped by clear(), and the
\* history went on with B, which it has just undone
C15_Witness ==
    /\ ~aliased
    /\ dropped = {"A", "C"}
    /\ lastOp["A"] = "undo"
    /\ lastOp["C"] # None
    /\ call = <<"back", None>>
    /\ _secondary = <<"B">>

\* C16: for a command that does not override redo, forth() on an instance
\* of that command invokes the command's execute with exactly the
\* instance's args and kwargs, so that redo's effect on the external state
\* is that of calling execute again with the same arguments.
C16_DefaultRedo ==
    [][(/\ call' = <<"forth", None>>
        /\ _secondary # <<>>
        /\ ~OverridesRedo(Command(_secondary[Len(_secondary)]))) =>
          LET c == _secondary[Len(_secondary)]
              again == Execute(ext, Command(c), Args(c), Kwargs(c), FALSE)
          IN /\ Len(log') = 2
             /\ log'[1] = [inst |-> c, method |-> "redo",
                           command |-> Command(c), args |-> Args(c),
                           kwargs |-> Kwargs(c)]
             /\ log'[2] = [inst |-> c, method |-> "execute",
                           command |-> Command(c), args |-> Args(c),
                           kwargs |-> Kwargs(c)]
             /\ ext' = again.ext
             /\ raised' = again.raised]_vars

\* a forth() on B, whose command keeps Command.redo and which has named
\* arguments, onto an applied instance of the same command
C16_Witness ==
    /\ call = <<"forth", None>>
    /\ outcome = Ok
    /\ _primary = <<"A", "B">>
    /\ pre.secondary = <<"B">>
    /\ Len(log) = 2
    /\ Len(ext) = Len(pre.ext) + 1

\* C17: a BoundedHistory is a History with a capacity: append stores the
\* command, removing the oldest ones once the capacity is reached, so that
\* the number of stored commands never exceeds the capacity given at
\* construction, which the capacity property always returns.
C17_BoundedHistory ==
    [][/\ _capacity' = _capacity
       /\ call' = <<"capacity", None>> =>
             outcome' = Ok /\ ret' = <<"int", _capacity>>
       /\ call'[1] = "append" => outcome' = Ok
       /\ call' = <<"__len__", None>> =>
             /\ outcome' = Ok
             /\ ret'[1] = "int"
             /\ ret'[2] <= _capacity]_vars

\* the part of C17 the code does keep: the capacity property returns the
\* value given at construction, whatever was called before
C17_Capacity ==
    [][/\ _capacity' = _capacity
       /\ call' = <<"capacity", None>> =>
             outcome' = Ok /\ ret' = <<"int", _capacity>>]_vars

\* how many times instance i is in s
Occurrences(i, s) == Cardinality({k \in 1..Len(s) : s[k] = i})

\* the instance the last call moved, if it was a back() or forth() that
\* moved one, is in exactly one of the two stacks
MovedIsInOneStack ==
    (call[1] \in {"back", "forth"} /\ log # <<>>) =>
       In(log[1].inst, _primary) # In(log[1].inst, _secondary)

\* C18 as stated: in every state a caller can observe, also after undo or
\* redo raised, every instance moved by back() or forth() is in exactly one
\* of the two stacks, never in both and never in neither.
C18_OneStackAsStated == MovedIsInOneStack

\* C18 as amended: the same, and no instance counts twice in length() or is
\* reachable by both back() and forth(), for the calls of a client that
\* never appends an instance which is already in one of the two regions.
C18_OneStack ==
    ~aliased =>
       /\ MovedIsInOneStack
       /\ \A i \in Instances :
             Occurrences(i, _primary) + Occurrences(i, _secondary) <= 1
       /\ length = Cardinality(Tracked)

\* a back() whose undo raised, which moved C next to another undone instance
C18_Witness ==
    /\ ~aliased
    /\ call = <<"back", None>>
    /\ raised
    /\ log[1].inst = "C"
    /\ Len(_secondary) = 2
    /\ _secondary[2] = "C"
    /\ ~In("C", _primary)

\* s from its last element to its first
Reverse(s) == [k \in 1..Len(s) |-> s[Len(s) + 1 - k]]

\* the applied region from bottom to top, then the redoable region from top
\* to bottom
Timeline == _primary \o Reverse(_secondary)

\* C19: the timeline is left unchanged by every back() and forth() call,
\* successful or failing, and is changed only by append and clear; so back()
\* undoes the instances in the reverse of the order in which they were
\* executed and forth() redoes them in that order: each acts on the instance
\* next to the cursor in the timeline and moves the cursor by one.
C19_Timeline ==
    [][/\ call'[1] \in {"back", "forth"} => Timeline' = Timeline
       /\ Timeline' # Timeline => call'[1] \in {"append", "clear"}
       /\ (call' = <<"back", None>> /\ log' # <<>>) =>
             /\ \A k \in 1..Len(log') :
                   log'[k].inst = Timeline[Len(_primary)]
             /\ Len(_primary') = Len(_primary) - 1
       /\ (call' = <<"forth", None>> /\ log' # <<>>) =>
             /\ \A k \in 1..Len(log') :
                   log'[k].inst = Timeline[Len(_primary) + 1]
             /\ Len(_primary') = Len(_primary) + 1]_vars

\* a back() that moved the cursor between two different instances, the one
\* executed first undone last
C19_Witness ==
    /\ call = <<"back", None>>
    /\ _primary = <<>>
    /\ Len(_secondary) = 2
    /\ _secondary[1] # _secondary[2]
    /\ Timeline = <<_secondary[2], _secondary[1]>>
    /\ log[1].inst = _secondary[2]
    /\ trace # Truncated
    /\ Len(trace) = 4
    /\ trace[1][2] = _secondary[2]

\* the external state after executing the instances of s in order, from
\* external state x
RECURSIVE Executed(_, _)
Executed(x, s) ==
    IF s = <<>>
    THEN x
    ELSE Executed(Execute(x, Command(s[1]), Args(s[1]), Kwargs(s[1]),
                          FALSE).ext,
                  Tail(s))

\* C20: with commands that do not raise and a history that is never
\* cleared, after any sequence of append, back and forth calls the external
\* state is the one obtained by executing, from the initial external state,
\* exactly the instances of the applied region from bottom to top; no
\* command operation raises, undone and discarded instances leave no effect.
C20_ExternalState ==
    /\ ext = Executed(<<>>, _primary)
    /\ ~raised
    /\ outcome # CommandError

\* one instance applied, one undone and one discarded by an append
C20_Witness ==
    /\ Len(_primary) = 1
    /\ Len(_secondary) = 1
    /\ dropped # {}
    /\ ~aliased
    /\ Len(ext) = 1
    /\ call = <<"back", None>>

=============================================================================
